---- MODULE Spec2Model ----
(***************************************************************************)
(* A model of src/database/aurora_connector.py: the AuroraDSQLConnector    *)
(* class, its New-Order transaction (execute_new_order) and its generic    *)
(* statement path (execute_query), run against a backend with snapshot     *)
(* reads and an optimistic commit (Amazon Aurora DSQL, reached through     *)
(* one psycopg2 connection per connector instance).                        *)
(*                                                                         *)
(* A call is a caller's thread; one step of a call is one statement sent   *)
(* on the connector's connection (cur.execute / commit / rollback)         *)
(* together with the Python code up to the next statement.                 *)
(***************************************************************************)
EXTENDS Integers, Sequences, FiniteSets, TLC

\* ------------------------------------------------------------------ bounds
NumCalls == 2        \* calls made in one behaviour, each by its own caller
NumConns == 2        \* connector instances (one connection each)
MaxLines == 2        \* longest items list of an order

Procs == 1..NumCalls
Conns == 1..NumConns

\* ------------------------------------------------------- program constants
StockFloor == 10     \* if new_qty < 10
Restock == 100       \* new_qty += 100
AllLocal == 1        \* o_all_local = 1

\* -------------------------------------------------------------- the tables
\* Keys: district <<d_w_id, d_id>>, customer <<c_w_id, c_d_id, c_id>>,
\* stock <<s_w_id, s_i_id>>, item i_id.  Every row carries the version the
\* backend compares at commit (ver); it is no column of the schema.
DistrictKeys == {<<1, 1>>, <<1, 2>>, <<2, 1>>}
CustomerKeys == {<<1, 1, 1>>, <<1, 2, 1>>, <<2, 1, 1>>}
StockKeys == {<<1, 1>>, <<1, 2>>, <<2, 1>>}
ItemKeys == {1, 2}

InitDistrict ==
    [k \in DistrictKeys |->
        [d_next_o_id |-> 100 * k[1] + 10 * k[2], ver |-> 0]]

InitStock ==
    [k \in StockKeys |->
        [s_quantity |-> IF k = <<1, 1>> THEN 15 ELSE IF k = <<1, 2>> THEN 50 ELSE 10,
         s_ytd |-> 0, s_order_cnt |-> 0, ver |-> 0]]

InitItem == [i \in ItemKeys |-> [i_price |-> 4 + i]]

InitCustomer == [k \in CustomerKeys |-> [c_discount |-> 0, c_credit |-> "GC"]]

InitDB ==
    [district |-> InitDistrict, customer |-> InitCustomer, item |-> InitItem,
     stock |-> InitStock, orders |-> {}, new_order |-> {}, order_line |-> {}]

\* ------------------------------------------------- the statement classifier
\* A statement is the sequence of its characters.
Lowercase ==
    <<"a", "b", "c", "d", "e", "f", "g", "h", "i", "j", "k", "l", "m",
      "n", "o", "p", "q", "r", "s", "t", "u", "v", "w", "x", "y", "z">>
Uppercase ==
    <<"A", "B", "C", "D", "E", "F", "G", "H", "I", "J", "K", "L", "M",
      "N", "O", "P", "Q", "R", "S", "T", "U", "V", "W", "X", "Y", "Z">>

Upper(c) ==
    IF \E i \in DOMAIN Lowercase : Lowercase[i] = c
    THEN Uppercase[CHOOSE i \in DOMAIN Lowercase : Lowercase[i] = c]
    ELSE c

Lower(c) ==
    IF \E i \in DOMAIN Uppercase : Uppercase[i] = c
    THEN Lowercase[CHOOSE i \in DOMAIN Uppercase : Uppercase[i] = c]
    ELSE c

\* The characters \s matches, of those the statements here are made of.
Whitespace == {" ", "\t", "\n"}

\* (CREATE|ALTER|DROP|TRUNCATE|RENAME|GRANT|REVOKE)
DDL_PATTERN ==
    {<<"C", "R", "E", "A", "T", "E">>, <<"A", "L", "T", "E", "R">>,
     <<"D", "R", "O", "P">>, <<"T", "R", "U", "N", "C", "A", "T", "E">>,
     <<"R", "E", "N", "A", "M", "E">>, <<"G", "R", "A", "N", "T">>,
     <<"R", "E", "V", "O", "K", "E">>}

\* (INSERT|UPDATE|DELETE)
DML_PATTERN ==
    {<<"I", "N", "S", "E", "R", "T">>, <<"U", "P", "D", "A", "T", "E">>,
     <<"D", "E", "L", "E", "T", "E">>}

\* ^\s*: the statement after its leading whitespace.
RECURSIVE SkipSpace(_)
SkipSpace(query) ==
    IF query # << >> /\ Head(query) \in Whitespace
    THEN SkipSpace(Tail(query))
    ELSE query

\* Mutant of StartsWith: the match is case-sensitive.
StartsWithSameCase(rest, keyword) ==
    /\ Len(rest) >= Len(keyword)
    /\ \A i \in 1..Len(keyword) : rest[i] = keyword[i]

\* The alternative keyword matches at the start of rest, re.IGNORECASE;
\* what follows the keyword is not looked at.
StartsWith(rest, keyword) ==
    /\ Len(rest) >= Len(keyword)
    /\ \A i \in 1..Len(keyword) : Upper(rest[i]) = keyword[i]

\* pattern.match(query): the pattern matches at the start of query.
Match(pattern, query) ==
    \E keyword \in pattern : StartsWith(SkipSpace(query), keyword)

is_ddl(query) == Match(DDL_PATTERN, query)
is_dml(query) == Match(DML_PATTERN, query)

\* if is_ddl: ... elif is_dml: ... else: the branch execute_query takes.
Branch(query) ==
    IF is_ddl(query) THEN "DDL" ELSE IF is_dml(query) THEN "DML" ELSE "READ"

\* The statements of the benchmark's callers: one of each class.
BenchmarkStatements ==
    {<<"C", "R", "E", "A", "T", "E", " ", "t">>,
     <<"U", "P", "D", "A", "T", "E", " ", "t">>,
     <<"S", "E", "L", "E", "C", "T", " ", "1">>}

Lowered(word) == [i \in DOMAIN word |-> Lower(word[i])]
Capitalised(word) == [i \in DOMAIN word |-> IF i = 1 THEN word[i] ELSE Lower(word[i])]

\* Statements of any shape: each keyword followed by a blank, alone in
\* lower case, capitalised after whitespace and before a parenthesis, and
\* as the start of a longer word; and statements that start otherwise.
AnyStatements ==
    LET keywords == DDL_PATTERN \cup DML_PATTERN IN
    {keyword \o <<" ", "t">> : keyword \in keywords}
    \cup {Lowered(keyword) : keyword \in keywords}
    \cup {<<" ", "\t", "\n">> \o Capitalised(keyword) \o <<"(">> : keyword \in keywords}
    \cup {keyword \o <<"S">> : keyword \in keywords}
    \cup {<< >>, <<" ">>,
          <<"S", "E", "L", "E", "C", "T", " ", "1">>,
          <<"W", "I", "T", "H", " ", "x">>,
          <<"C", "R", "E", "A", "T">>,
          <<"(", "I", "N", "S", "E", "R", "T">>,
          <<"-", "-", "\n", "D", "R", "O", "P">>,
          <<"S", "E", "T", ";", "D", "R", "O", "P">>}

\* What the callers pass: the argument values of a workload.  District
\* <<2, 2>>, customer 2, item 3 and the stock of item 2 in warehouse 2 do not
\* exist.  exclusive: the callers use a connector one call at a time.
BenchmarkLoad ==
    [warehouses |-> {1, 2}, districts |-> {1, 2}, customers |-> {1, 2},
     items |-> {1, 2, 3}, quantities |-> {8}, exclusive |-> TRUE,
     queries |-> BenchmarkStatements]

\* Orders of warehouse 2 with any positive quantity, 101 standing for the
\* quantities above Restock.
AnyQuantityLoad ==
    [BenchmarkLoad EXCEPT !.warehouses = {2}, !.quantities = {8, 101}]

\* Orders of one district, customer and item, and statements of any shape.
AnyStatementLoad ==
    [BenchmarkLoad EXCEPT !.warehouses = {1}, !.districts = {1},
                          !.customers = {1}, !.items = {1},
                          !.queries = AnyStatements]

VARIABLES
    db,        \* the committed rows
    tx,        \* per connection: the transaction open on it, if any
    connOK,    \* per connection: the transport is up
    pc,        \* per call: the statement it is at
    args,      \* per call: the arguments read so far
    loc,       \* per call: its local variables
    res,       \* per call: what it returned or raised
    durable    \* the calls whose writes some commit made durable

vars == <<db, tx, connOK, pc, args, loc, res, durable>>

\* ------------------------------------------------- the connection's backend
\* No transaction on the connection.  snap and view are then unused.
IdleTx ==
    [status |-> "idle", snap |-> InitDB, view |-> InitDB,
     touched_d |-> {}, touched_s |-> {}, writers |-> {}]

\* psycopg2 opens a transaction with the first statement after a commit or
\* rollback; the backend serves every read of it from the rows committed
\* at that moment, and from the transaction's own writes.
Begin(k) ==
    IF tx[k].status = "idle"
    THEN [status |-> "open", snap |-> db, view |-> db,
          touched_d |-> {}, touched_s |-> {}, writers |-> {}]
    ELSE tx[k]

\* What cur.execute raises before the statement is run, if anything.
StmtError(k) ==
    IF ~connOK[k] THEN "ConnectionLost"
    ELSE IF tx[k].status = "failed" THEN "InFailedTx"
    ELSE "none"

OrderKey(o) == <<o.o_w_id, o.o_d_id, o.o_id>>
NewOrderKey(r) == <<r.no_w_id, r.no_d_id, r.no_o_id>>
OrderLineKey(l) == <<l.ol_w_id, l.ol_d_id, l.ol_o_id, l.ol_number>>

\* The rows transaction t inserted.
InsertedOrders(t) == t.view.orders \ t.snap.orders
InsertedNewOrders(t) == t.view.new_order \ t.snap.new_order
InsertedOrderLines(t) == t.view.order_line \ t.snap.order_line

\* The optimistic commit check: a row the transaction read for update or
\* wrote was committed by another transaction since its snapshot, or a key
\* it inserted was.
Conflicts(t) ==
    \/ \E key \in t.touched_d : db.district[key].ver # t.snap.district[key].ver
    \/ \E key \in t.touched_s : db.stock[key].ver # t.snap.stock[key].ver
    \/ \E o \in InsertedOrders(t) :
          \E o2 \in db.orders \ t.snap.orders : OrderKey(o2) = OrderKey(o)
    \/ \E r \in InsertedNewOrders(t) :
          \E r2 \in db.new_order \ t.snap.new_order : NewOrderKey(r2) = NewOrderKey(r)
    \/ \E l \in InsertedOrderLines(t) :
          \E l2 \in db.order_line \ t.snap.order_line : OrderLineKey(l2) = OrderLineKey(l)

\* The committed rows after transaction t commits.
Applied(t) ==
    [db EXCEPT
        !.district = [key \in DOMAIN @ |->
            IF key \in t.touched_d
            THEN [t.view.district[key] EXCEPT !.ver = db.district[key].ver + 1]
            ELSE @[key]],
        !.stock = [key \in DOMAIN @ |->
            IF key \in t.touched_s
            THEN [t.view.stock[key] EXCEPT !.ver = db.stock[key].ver + 1]
            ELSE @[key]],
        !.orders = @ \cup InsertedOrders(t),
        !.new_order = @ \cup InsertedNewOrders(t),
        !.order_line = @ \cup InsertedOrderLines(t)]

\* connection.commit(): the error it raises ("none": it returns).  A commit
\* of a transaction a failed statement aborted ends it without an error and
\* without committing.
CommitError(k) ==
    IF ~connOK[k] THEN "ConnectionLost"
    ELSE IF tx[k].status = "open" /\ Conflicts(tx[k]) THEN "TransactionConflict"
    ELSE "none"

\* The committed rows after connection.commit() on connection k.
CommitDB(k) ==
    IF CommitError(k) = "none" /\ tx[k].status = "open" THEN Applied(tx[k]) ELSE db

\* The calls whose writes connection.commit() on k makes durable.
CommitDurable(k) ==
    IF CommitError(k) = "none" /\ tx[k].status = "open"
    THEN durable \cup tx[k].writers
    ELSE durable

\* connection.rollback(): the error it raises ("none": it returns).
RollbackError(k) == IF connOK[k] THEN "none" ELSE "RollbackFailed"

\* ------------------------------------------------------------- the calls
NoArgs ==
    [op |-> "none", conn |-> 0, warehouse_id |-> 0, district_id |-> 0,
     customer_id |-> 0, n_items |-> 0, items |-> << >>,
     query |-> << >>, cls |-> "none"]

NoLocals ==
    [next_o_id |-> 0, line_number |-> 0, price |-> 0, s_quantity |-> 0,
     new_qty |-> 0, exc |-> "none"]

NoResult == [kind |-> "none", value |-> 0, error |-> "none"]

Active(q) == pc[q] \notin {"start", "done"}

\* A connector on which caller p may start a call.
Usable(p, k, W) ==
    W.exclusive => \A q \in Procs \ {p} : ~(Active(q) /\ args[q].conn = k)

\* One step of call p: its connection's transaction, its arguments read so
\* far, its locals and the statement it goes to.
Advance(p, t, a, l, label) ==
    /\ tx' = [tx EXCEPT ![args[p].conn] = t]
    /\ args' = [args EXCEPT ![p] = a]
    /\ loc' = [loc EXCEPT ![p] = l]
    /\ pc' = [pc EXCEPT ![p] = label]
    /\ UNCHANGED <<db, connOK, res, durable>>

\* The statement of call p raised e: to the except clause.
Throw(p, t, a, e, handler) ==
    Advance(p, t, a, [loc[p] EXCEPT !.exc = e], handler)

\* A statement of the transaction failed in the backend: the transaction is
\* aborted and takes no statement until it is rolled back.
Aborted(t) == [t EXCEPT !.status = "failed"]

\* Mutant of NewQty: no restock.
NewQtyNoRestock(s_quantity, quantity) == s_quantity - quantity

\* Mutant of NewQty: the restock only when the stock would go negative.
NewQtyBelowZero(s_quantity, quantity) ==
    IF s_quantity - quantity < 0
    THEN s_quantity - quantity + Restock
    ELSE s_quantity - quantity

\* new_qty = stock["s_quantity"] - quantity; if new_qty < 10: new_qty += 100
NewQty(s_quantity, quantity) ==
    IF s_quantity - quantity < StockFloor
    THEN s_quantity - quantity + Restock
    ELSE s_quantity - quantity

\* Mutant of OlAmount: the price of one unit.
OlAmountUnit(quantity, price) == price

\* ol_amount = quantity * price
OlAmount(quantity, price) == quantity * price

\* Mutant of IncrementedOrderId: the counter is written back unchanged.
IncrementedOrderIdSame(d_next_o_id) == d_next_o_id

\* Mutant of IncrementedOrderId: the counter skips an id.
IncrementedOrderIdSkipping(d_next_o_id) == d_next_o_id + 2

\* SET d_next_o_id = d_next_o_id + 1
IncrementedOrderId(d_next_o_id) == d_next_o_id + 1

\* Mutant of ReadOrderId: the id is taken after the increment.
ReadOrderIdIncremented(d_next_o_id) == d_next_o_id + 1

\* next_o_id = d_row["d_next_o_id"]
ReadOrderId(d_next_o_id) == d_next_o_id

\* Mutant of LoopHead: the loop stops one line early.
LoopHeadShort(line_number, n_items) ==
    IF line_number + 1 < n_items THEN "sel_item" ELSE "commit"

\* for line_number, item in enumerate(items, start=1): the statement after
\* the body for line_number, or after the inserts when line_number is 0.
LoopHead(line_number, n_items) ==
    IF line_number < n_items THEN "sel_item" ELSE "commit"

\* Mutant of RolledBack: the handler does not roll back.
RolledBackNot(t) == t

\* The connection's transaction after connection.rollback().
RolledBack(t) == IdleTx

\* Mutant of AfterCommit: the exception of commit() is swallowed.
AfterCommitSwallowed(err, next_o_id) ==
    [pc |-> "done", exc |-> "none",
     res |-> [kind |-> "returned", value |-> next_o_id, error |-> "none"]]

\* What execute_new_order does with commit()'s outcome: return next_o_id,
\* or leave the try block with the exception.
AfterCommit(err, next_o_id) ==
    IF err = "none"
    THEN [pc |-> "done", exc |-> "none",
          res |-> [kind |-> "returned", value |-> next_o_id, error |-> "none"]]
    ELSE [pc |-> "no_except", exc |-> err, res |-> NoResult]

\* The row of INSERT INTO orders.
OrderRow(next_o_id, district_id, warehouse_id, customer_id, o_ol_cnt) ==
    [o_id |-> next_o_id, o_d_id |-> district_id, o_w_id |-> warehouse_id,
     o_c_id |-> customer_id, o_carrier_id |-> "NULL", o_ol_cnt |-> o_ol_cnt,
     o_all_local |-> AllLocal]

\* The row of INSERT INTO new_order.
NewOrderRow(next_o_id, district_id, warehouse_id) ==
    [no_o_id |-> next_o_id, no_d_id |-> district_id, no_w_id |-> warehouse_id]

\* The row of INSERT INTO order_line.
OrderLineRow(next_o_id, district_id, warehouse_id, line_number, item_id, quantity, price) ==
    [ol_o_id |-> next_o_id, ol_d_id |-> district_id, ol_w_id |-> warehouse_id,
     ol_number |-> line_number, ol_i_id |-> item_id, ol_supply_w_id |-> warehouse_id,
     ol_delivery_d |-> "NULL", ol_quantity |-> quantity,
     ol_amount |-> OlAmount(quantity, price)]

\* execute_new_order(warehouse_id, district_id, customer_id, items) is
\* called on connector k.  customer_id, len(items) and each items[i] are
\* drawn at the statement that first reads them.
CallNewOrder(p, W) ==
    /\ pc[p] = "start"
    /\ \E k \in Conns, w \in W.warehouses, d \in W.districts :
        /\ Usable(p, k, W)
        /\ args' = [args EXCEPT ![p] =
              [NoArgs EXCEPT !.op = "new_order", !.conn = k,
                             !.warehouse_id = w, !.district_id = d]]
    /\ pc' = [pc EXCEPT ![p] = "sel_district"]
    /\ UNCHANGED <<db, tx, connOK, loc, res, durable>>

\* 1. SELECT d_next_o_id FROM district ... FOR UPDATE
SelectDistrict(p) ==
    /\ pc[p] = "sel_district"
    /\ LET k == args[p].conn
           t == Begin(k)
           key == <<args[p].warehouse_id, args[p].district_id>>
       IN  IF StmtError(k) # "none"
           THEN Throw(p, tx[k], args[p], StmtError(k), "no_except")
           ELSE IF key \notin DOMAIN t.view.district
           THEN Throw(p, t, args[p], "DistrictNotFound", "no_except")
           ELSE Advance(p, [t EXCEPT !.touched_d = @ \cup {key}], args[p],
                        [loc[p] EXCEPT !.next_o_id =
                            ReadOrderId(t.view.district[key].d_next_o_id)],
                        "upd_district")

\* 2. UPDATE district SET d_next_o_id = d_next_o_id + 1
UpdateDistrict(p) ==
    /\ pc[p] = "upd_district"
    /\ LET k == args[p].conn
           t == Begin(k)
           key == <<args[p].warehouse_id, args[p].district_id>>
       IN  IF StmtError(k) # "none"
           THEN Throw(p, tx[k], args[p], StmtError(k), "no_except")
           ELSE Advance(p,
                        [t EXCEPT !.view.district[key].d_next_o_id = IncrementedOrderId(@),
                                  !.touched_d = @ \cup {key},
                                  !.writers = @ \cup {p}],
                        args[p], loc[p], "sel_customer")

\* 3. SELECT c_discount, c_credit, c_last FROM customer
SelectCustomer(p, W) ==
    /\ pc[p] = "sel_customer"
    /\ \E c \in W.customers :
       LET k == args[p].conn
           t == Begin(k)
           a == [args[p] EXCEPT !.customer_id = c]
           key == <<a.warehouse_id, a.district_id, c>>
       IN  IF StmtError(k) # "none"
           THEN Throw(p, tx[k], a, StmtError(k), "no_except")
           ELSE IF key \notin DOMAIN t.view.customer
           THEN Throw(p, t, a, "CustomerNotFound", "no_except")
           ELSE Advance(p, t, a, loc[p], "ins_order")

\* 4. o_ol_cnt = len(items); INSERT INTO orders
InsertOrder(p) ==
    /\ pc[p] = "ins_order"
    /\ \E n \in 0..MaxLines :
       LET k == args[p].conn
           t == Begin(k)
           a == [args[p] EXCEPT !.n_items = n]
           row == OrderRow(loc[p].next_o_id, a.district_id, a.warehouse_id,
                           a.customer_id, n)
       IN  IF StmtError(k) # "none"
           THEN Throw(p, tx[k], a, StmtError(k), "no_except")
           ELSE IF \E o \in t.view.orders : OrderKey(o) = OrderKey(row)
           THEN Throw(p, Aborted(t), a, "UniqueViolation", "no_except")
           ELSE Advance(p, [t EXCEPT !.view.orders = @ \cup {row},
                                     !.writers = @ \cup {p}],
                        a, loc[p], "ins_new_order")

\* 5. INSERT INTO new_order; then the head of the loop over items
InsertNewOrder(p) ==
    /\ pc[p] = "ins_new_order"
    /\ LET k == args[p].conn
           t == Begin(k)
           row == NewOrderRow(loc[p].next_o_id, args[p].district_id, args[p].warehouse_id)
       IN  IF StmtError(k) # "none"
           THEN Throw(p, tx[k], args[p], StmtError(k), "no_except")
           ELSE IF \E r \in t.view.new_order : NewOrderKey(r) = NewOrderKey(row)
           THEN Throw(p, Aborted(t), args[p], "UniqueViolation", "no_except")
           ELSE Advance(p, [t EXCEPT !.view.new_order = @ \cup {row},
                                     !.writers = @ \cup {p}],
                        args[p], loc[p],
                        LoopHead(0, args[p].n_items))

\* 6a. line_number, item = next of enumerate(items, start=1);
\*     SELECT i_price FROM item
SelectItem(p, W) ==
    /\ pc[p] = "sel_item"
    /\ \E i \in W.items, q \in W.quantities :
       LET k == args[p].conn
           t == Begin(k)
           a == [args[p] EXCEPT !.items = Append(@, [item_id |-> i, quantity |-> q])]
           l == [loc[p] EXCEPT !.line_number = @ + 1]
       IN  IF StmtError(k) # "none"
           THEN Advance(p, tx[k], a, [l EXCEPT !.exc = StmtError(k)], "no_except")
           ELSE IF i \notin DOMAIN t.view.item
           THEN Advance(p, t, a, [l EXCEPT !.exc = "ItemNotFound"], "no_except")
           ELSE Advance(p, t, a, [l EXCEPT !.price = t.view.item[i].i_price],
                        "sel_stock")

\* The line the loop is at.
Line(p) == args[p].items[loc[p].line_number]

\* Mutant of StockKey: the stock of warehouse 1 whatever the order's.
StockKeyFirstWarehouse(warehouse_id, item_id) == <<1, item_id>>

\* Mutant of StockKey: the two parameters in the wrong order.
StockKeySwapped(warehouse_id, item_id) == <<item_id, warehouse_id>>

\* WHERE s_w_id = %s AND s_i_id = %s with (warehouse_id, item_id)
StockKey(warehouse_id, item_id) == <<warehouse_id, item_id>>

\* Mutant of StockRead: the read does not see the transaction's updates.
StockReadCommitted(t, key) == t.snap.stock[key]

\* stock = cur.fetchone(): the row as the transaction sees it, its own
\* updates included.
StockRead(t, key) == t.view.stock[key]

\* 6b. SELECT s_quantity, ... FROM stock ... FOR UPDATE; new_qty
SelectStock(p) ==
    /\ pc[p] = "sel_stock"
    /\ LET k == args[p].conn
           t == Begin(k)
           key == StockKey(args[p].warehouse_id, Line(p).item_id)
       IN  IF StmtError(k) # "none"
           THEN Throw(p, tx[k], args[p], StmtError(k), "no_except")
           ELSE IF key \notin DOMAIN t.view.stock
           THEN Throw(p, t, args[p], "StockNotFound", "no_except")
           ELSE Advance(p, [t EXCEPT !.touched_s = @ \cup {key}], args[p],
                        [loc[p] EXCEPT
                            !.s_quantity = StockRead(t, key).s_quantity,
                            !.new_qty = NewQty(StockRead(t, key).s_quantity,
                                               Line(p).quantity)],
                        "upd_stock")

\* 6c. UPDATE stock SET s_quantity = new_qty, s_ytd = s_ytd + quantity,
\*     s_order_cnt = s_order_cnt + 1
UpdateStock(p) ==
    /\ pc[p] = "upd_stock"
    /\ LET k == args[p].conn
           t == Begin(k)
           key == StockKey(args[p].warehouse_id, Line(p).item_id)
       IN  IF StmtError(k) # "none"
           THEN Throw(p, tx[k], args[p], StmtError(k), "no_except")
           ELSE Advance(p,
                        [t EXCEPT !.view.stock[key].s_quantity = loc[p].new_qty,
                                  !.view.stock[key].s_ytd = @ + Line(p).quantity,
                                  !.view.stock[key].s_order_cnt = @ + 1,
                                  !.touched_s = @ \cup {key},
                                  !.writers = @ \cup {p}],
                        args[p], loc[p], "ins_order_line")

\* 6d. INSERT INTO order_line; then the head of the loop over items
InsertOrderLine(p) ==
    /\ pc[p] = "ins_order_line"
    /\ LET k == args[p].conn
           t == Begin(k)
           row == OrderLineRow(loc[p].next_o_id, args[p].district_id,
                               args[p].warehouse_id, loc[p].line_number,
                               Line(p).item_id, Line(p).quantity, loc[p].price)
       IN  IF StmtError(k) # "none"
           THEN Throw(p, tx[k], args[p], StmtError(k), "no_except")
           ELSE IF \E r \in t.view.order_line : OrderLineKey(r) = OrderLineKey(row)
           THEN Throw(p, Aborted(t), args[p], "UniqueViolation", "no_except")
           ELSE Advance(p, [t EXCEPT !.view.order_line = @ \cup {row},
                                     !.writers = @ \cup {p}],
                        args[p], loc[p],
                        LoopHead(loc[p].line_number, args[p].n_items))

\* 7. self.connection.commit(); return next_o_id
CommitNewOrder(p) ==
    /\ pc[p] = "commit"
    /\ LET k == args[p].conn
           out == AfterCommit(CommitError(k), loc[p].next_o_id)
       IN  /\ db' = CommitDB(k)
           /\ durable' = CommitDurable(k)
           /\ tx' = [tx EXCEPT ![k] = IdleTx]
           /\ res' = [res EXCEPT ![p] = out.res]
           /\ pc' = [pc EXCEPT ![p] = out.pc]
           /\ loc' = [loc EXCEPT ![p].exc = out.exc]
    /\ UNCHANGED <<connOK, args>>

\* except Exception as e: if self.connection: self.connection.rollback(); raise
\* An exception of rollback() leaves the handler in place of e.
ExceptNewOrder(p) ==
    /\ pc[p] = "no_except"
    /\ LET k == args[p].conn IN
       /\ tx' = [tx EXCEPT ![k] = IF connOK[k] THEN RolledBack(tx[k]) ELSE tx[k]]
       /\ res' = [res EXCEPT ![p] =
             [kind |-> "raised", value |-> 0,
              error |-> IF RollbackError(k) = "none" THEN loc[p].exc
                        ELSE RollbackError(k)]]
    /\ pc' = [pc EXCEPT ![p] = "done"]
    /\ UNCHANGED <<db, connOK, args, loc, durable>>

\* execute_query(query, params) is called on connector k; is_ddl and is_dml
\* classify the statement.  Of the statement the model keeps its text, that
\* it ran and in which transaction, not its rows.
CallQuery(p, W) ==
    /\ pc[p] = "start"
    /\ \E k \in Conns, q \in W.queries :
        /\ Usable(p, k, W)
        /\ args' = [args EXCEPT ![p] =
              [NoArgs EXCEPT !.op = "query", !.conn = k, !.query = q,
                             !.cls = Branch(q)]]
    /\ pc' = [pc EXCEPT ![p] = "q_execute"]
    /\ UNCHANGED <<db, tx, connOK, loc, res, durable>>

\* cur.execute(query, params or ()) in the branch of the statement's class;
\* a READ then returns its rows with the transaction left open.
QueryExecute(p) ==
    /\ pc[p] = "q_execute"
    /\ LET k == args[p].conn
           t == Begin(k)
       IN  IF StmtError(k) # "none"
           THEN Throw(p, tx[k], args[p], StmtError(k), "q_except")
           ELSE \E ok \in BOOLEAN :
                IF ~ok
                THEN Throw(p, Aborted(t), args[p], "StatementError", "q_except")
                ELSE IF args[p].cls = "READ"
                THEN /\ tx' = [tx EXCEPT ![k] = t]
                     /\ res' = [res EXCEPT ![p] =
                           [kind |-> "returned", value |-> 0, error |-> "none"]]
                     /\ pc' = [pc EXCEPT ![p] = "done"]
                     /\ UNCHANGED <<db, connOK, args, loc, durable>>
                ELSE Advance(p, [t EXCEPT !.writers = @ \cup {p}], args[p], loc[p],
                             "q_commit")

\* self.connection.commit() of the DDL and DML branches; return rows
QueryCommit(p) ==
    /\ pc[p] = "q_commit"
    /\ LET k == args[p].conn IN
       /\ db' = CommitDB(k)
       /\ durable' = CommitDurable(k)
       /\ tx' = [tx EXCEPT ![k] = IdleTx]
       /\ IF CommitError(k) = "none"
          THEN /\ res' = [res EXCEPT ![p] =
                    [kind |-> "returned", value |-> 0, error |-> "none"]]
               /\ pc' = [pc EXCEPT ![p] = "done"]
               /\ loc' = loc
          ELSE /\ loc' = [loc EXCEPT ![p].exc = CommitError(k)]
               /\ pc' = [pc EXCEPT ![p] = "q_except"]
               /\ res' = res
    /\ UNCHANGED <<connOK, args>>

\* except Exception as e: try: self.connection.rollback()
\* except Exception as rollback_err: logger.warning(...); raise
ExceptQuery(p) ==
    /\ pc[p] = "q_except"
    /\ tx' = [tx EXCEPT ![args[p].conn] =
          IF connOK[args[p].conn] THEN RolledBack(tx[args[p].conn]) ELSE tx[args[p].conn]]
    /\ res' = [res EXCEPT ![p] =
          [kind |-> "raised", value |-> 0, error |-> loc[p].exc]]
    /\ pc' = [pc EXCEPT ![p] = "done"]
    /\ UNCHANGED <<db, connOK, args, loc, durable>>

\* The statement, commit or rollback call p is at finds the transport of its
\* connection down (a timeout, a dropped connection) and raises; the backend
\* discards the open transaction, and every later statement, commit and
\* rollback on the connection raises.  In execute_new_order the exception of
\* rollback() leaves the handler; in execute_query it is logged.
ConnectionLost(p) ==
    /\ Active(p)
    /\ connOK[args[p].conn]
    /\ connOK' = [connOK EXCEPT ![args[p].conn] = FALSE]
    /\ tx' = [tx EXCEPT ![args[p].conn] = IdleTx]
    /\ IF pc[p] = "no_except"
       THEN /\ res' = [res EXCEPT ![p] =
                 [kind |-> "raised", value |-> 0, error |-> "RollbackFailed"]]
            /\ pc' = [pc EXCEPT ![p] = "done"]
            /\ loc' = loc
       ELSE IF pc[p] = "q_except"
       THEN /\ res' = [res EXCEPT ![p] =
                 [kind |-> "raised", value |-> 0, error |-> loc[p].exc]]
            /\ pc' = [pc EXCEPT ![p] = "done"]
            /\ loc' = loc
       ELSE /\ loc' = [loc EXCEPT ![p].exc = "ConnectionLost"]
            /\ pc' = [pc EXCEPT ![p] =
                 IF args[p].op = "query" THEN "q_except" ELSE "no_except"]
            /\ res' = res
    /\ UNCHANGED <<db, args, durable>>

\* ------------------------------------------------------ the specification
\* After construction: __init__ has connected, no call has been made.
Init ==
    /\ db = InitDB
    /\ tx = [k \in Conns |-> IdleTx]
    /\ connOK = [k \in Conns |-> TRUE]
    /\ pc = [p \in Procs |-> "start"]
    /\ args = [p \in Procs |-> NoArgs]
    /\ loc = [p \in Procs |-> NoLocals]
    /\ res = [p \in Procs |-> NoResult]
    /\ durable = {}

Step(p, W) ==
    \/ CallNewOrder(p, W)
    \/ SelectDistrict(p)
    \/ UpdateDistrict(p)
    \/ SelectCustomer(p, W)
    \/ InsertOrder(p)
    \/ InsertNewOrder(p)
    \/ SelectItem(p, W)
    \/ SelectStock(p)
    \/ UpdateStock(p)
    \/ InsertOrderLine(p)
    \/ CommitNewOrder(p)
    \/ ExceptNewOrder(p)
    \/ CallQuery(p, W)
    \/ QueryExecute(p)
    \/ QueryCommit(p)
    \/ ExceptQuery(p)

NextW(W) ==
    \/ \E p \in Procs : Step(p, W)
    \/ \E p \in Procs : ConnectionLost(p)

\* Orders with the benchmark's quantities; a connector serves one call at a
\* time, concurrent calls run on different connectors.
Next == NextW(BenchmarkLoad)

Spec == Init /\ [][Next]_vars

\* The same calls with orders of any positive quantity.
NextAnyQuantity == NextW(AnyQuantityLoad)

SpecAnyQuantity == Init /\ [][NextAnyQuantity]_vars

\* The same calls with statements of any shape.
NextAnyStatement == NextW(AnyStatementLoad)

SpecAnyStatement == Init /\ [][NextAnyStatement]_vars

\* ---------------------------------------------------------------- claims
NewOrderCalls == {p \in Procs : args[p].op = "new_order"}
DistrictOf(p) == <<args[p].warehouse_id, args[p].district_id>>
Returned(p) == res[p].kind = "returned"
Raised(p) == res[p].kind = "raised"
NotFoundErrors ==
    {"DistrictNotFound", "CustomerNotFound", "ItemNotFound", "StockNotFound"}
TransportErrors == {"ConnectionLost", "RollbackFailed"}

\* C1: a call of execute_new_order that returns, returns the d_next_o_id its
\* district had before the increment, and its commit leaves the district's
\* committed d_next_o_id at that value plus 1.
C1_ReturnsPreIncrementId ==
    [][\A p \in Procs :
          (pc[p] = "commit" /\ pc'[p] = "done" /\ res'[p].kind = "returned") =>
              /\ res'[p].value = db.district[DistrictOf(p)].d_next_o_id
              /\ db'.district[DistrictOf(p)].d_next_o_id = res'[p].value + 1]_vars

C1_Witness ==
    \E p \in NewOrderCalls :
        /\ Returned(p)
        /\ res[p].value = InitDistrict[DistrictOf(p)].d_next_o_id
        /\ db.district[DistrictOf(p)].d_next_o_id = res[p].value + 1

\* C2: a call of execute_new_order that raised left nothing behind: no
\* commit made a write of it durable, no transaction still holds one, and
\* as long as no order call has returned the committed rows (district
\* counters, stock, orders, new_order, order_line) are the initial ones.
C2_FailedCallLeavesNoEffect ==
    /\ \A p \in NewOrderCalls :
          Raised(p) => /\ p \notin durable
                       /\ \A k \in Conns : p \notin tx[k].writers
    /\ (\A p \in NewOrderCalls : ~Returned(p)) => db = InitDB

\* The item of line 2 is missing, after line 1 updated the stock.
C2_Witness ==
    \E p \in NewOrderCalls :
        /\ Raised(p)
        /\ res[p].error = "ItemNotFound"
        /\ loc[p].line_number = 2
        /\ db = InitDB

\* The Stock rows an order's lines name.
StockRowsOf(p) ==
    {<<args[p].warehouse_id, args[p].items[i].item_id>> : i \in 1..Len(args[p].items)}

\* Calls p and q write a common row: the district's, or a Stock row.
SharesRow(p, q) ==
    \/ DistrictOf(p) = DistrictOf(q)
    \/ StockRowsOf(p) \cap StockRowsOf(q) # {}

\* The calls of execute_new_order on district key that returned.
ReturnedOn(key) == {p \in NewOrderCalls : DistrictOf(p) = key /\ Returned(p)}

\* C3: calls of execute_new_order on one district, each in its own
\* transaction: those that return have distinct, consecutive ids from the
\* district's initial d_next_o_id on, and the counter has advanced by their
\* number; a call that raised TransactionConflict lost to another call,
\* which returned, and left nothing; and with valid arguments and a live
\* connection a call fails for no other reason.
C3_SameDistrictSerializes ==
    /\ \A key \in DistrictKeys :
          LET n0 == InitDistrict[key].d_next_o_id
              n == Cardinality(ReturnedOn(key))
          IN  /\ {res[p].value : p \in ReturnedOn(key)} = n0..(n0 + n - 1)
              /\ \A p, q \in ReturnedOn(key) :
                    p # q => (res[p].value # res[q].value
                              /\ loc[p].next_o_id # loc[q].next_o_id)
              /\ db.district[key].d_next_o_id = n0 + n
    /\ \A p \in NewOrderCalls :
          /\ res[p].error = "TransactionConflict" =>
                /\ p \notin durable
                /\ \E q \in NewOrderCalls \ {p} : Returned(q) /\ SharesRow(p, q)
          /\ Raised(p) =>
                res[p].error \in
                    NotFoundErrors \cup TransportErrors \cup {"TransactionConflict"}

\* Two calls on one district ran into each other: one returned, the other
\* raised the conflict.
C3_Witness ==
    \E p, q \in NewOrderCalls :
        /\ p # q
        /\ DistrictOf(p) = DistrictOf(q)
        /\ res[p].error = "TransactionConflict"
        /\ Returned(q)
        /\ db.district[DistrictOf(p)].d_next_o_id = res[q].value + 1

\* C4 as claimed: two calls on distinct districts never fail with a
\* transaction conflict, whatever their warehouses and items.
C4_DistinctDistrictsNeverConflict ==
    \A p, q \in NewOrderCalls :
        (p # q /\ DistrictOf(p) # DistrictOf(q)) =>
            res[p].error # "TransactionConflict"

\* C4 as amended: a call of execute_new_order, in its own transaction,
\* whose district and Stock rows no other call's order names: it fails only
\* for a missing row or a lost connection, never with a conflict, and when
\* it returns it has its district's initial d_next_o_id, the district's
\* counter being that plus 1.
C4_DisjointOrdersBothSucceed ==
    \A p \in NewOrderCalls :
        (/\ pc[p] = "done"
         /\ \A q \in NewOrderCalls \ {p} : pc[q] = "done" /\ ~SharesRow(p, q)) =>
            /\ Raised(p) => res[p].error \in NotFoundErrors \cup TransportErrors
            /\ Returned(p) =>
                  /\ res[p].value = InitDistrict[DistrictOf(p)].d_next_o_id
                  /\ db.district[DistrictOf(p)].d_next_o_id = res[p].value + 1

\* Both calls returned, in one warehouse, with different items.
C4_Witness ==
    \E p, q \in NewOrderCalls :
        /\ p # q
        /\ DistrictOf(p) # DistrictOf(q)
        /\ args[p].warehouse_id = args[q].warehouse_id
        /\ Returned(p) /\ Returned(q)
        /\ StockRowsOf(p) # {} /\ StockRowsOf(q) # {}
        /\ ~SharesRow(p, q)

\* C5: the committed rows hold no partial order: every orders row has
\* exactly one new_order row of its key and exactly one order_line row for
\* each number 1..o_ol_cnt and none beyond, and no new_order or order_line
\* row is without its orders row.
C5_NoPartialOrder ==
    /\ \A o \in db.orders :
          /\ Cardinality({o2 \in db.orders : OrderKey(o2) = OrderKey(o)}) = 1
          /\ Cardinality({r \in db.new_order : NewOrderKey(r) = OrderKey(o)}) = 1
          /\ \A i \in 1..o.o_ol_cnt :
                Cardinality({l \in db.order_line :
                    OrderLineKey(l) = <<o.o_w_id, o.o_d_id, o.o_id, i>>}) = 1
          /\ \A l \in db.order_line :
                (l.ol_w_id = o.o_w_id /\ l.ol_d_id = o.o_d_id /\ l.ol_o_id = o.o_id)
                    => l.ol_number \in 1..o.o_ol_cnt
    /\ \A r \in db.new_order : \E o \in db.orders : OrderKey(o) = NewOrderKey(r)
    /\ \A l \in db.order_line :
          \E o \in db.orders : OrderKey(o) = <<l.ol_w_id, l.ol_d_id, l.ol_o_id>>

C5_Witness ==
    \E o \in db.orders :
        /\ o.o_ol_cnt = 2
        /\ Cardinality({l \in db.order_line : l.ol_o_id = o.o_id}) = 2

\* The Stock row after the lines of items that name item i_id, taken in
\* input order: quantity less the ordered quantity, plus 100 if and only if
\* that is below 10; year-to-date plus the quantity; order count plus 1.
RECURSIVE StockAfterLines(_, _, _)
StockAfterLines(row, items, i_id) ==
    IF items = << >> THEN row
    ELSE LET l == Head(items)
             left == row.s_quantity - l.quantity
         IN  StockAfterLines(
                 IF l.item_id = i_id
                 THEN [row EXCEPT !.s_quantity = IF left < 10 THEN left + 100 ELSE left,
                                  !.s_ytd = @ + l.quantity,
                                  !.s_order_cnt = @ + 1]
                 ELSE row,
                 Tail(items), i_id)

SameStock(r1, r2) ==
    /\ r1.s_quantity = r2.s_quantity
    /\ r1.s_ytd = r2.s_ytd
    /\ r1.s_order_cnt = r2.s_order_cnt

\* C6: the commit of a successful order takes every Stock row of the order's
\* warehouse from its committed value to that value after the order's lines
\* for its item, and leaves the Stock rows of other warehouses alone.
C6_StockUpdatedPerLine ==
    [][\A p \in Procs :
          (pc[p] = "commit" /\ pc'[p] = "done" /\ res'[p].kind = "returned") =>
              \A key \in StockKeys :
                  SameStock(db'.stock[key],
                            IF key[1] = args[p].warehouse_id
                            THEN StockAfterLines(db.stock[key], args[p].items, key[2])
                            ELSE db.stock[key])]_vars

\* 15 - 8 = 7 went to 107 and 50 - 8 stayed 42.
C6_Witness ==
    /\ db.stock[<<1, 1>>].s_quantity = 107
    /\ db.stock[<<1, 1>>].s_ytd = 8
    /\ db.stock[<<1, 1>>].s_order_cnt = 1
    /\ db.stock[<<1, 2>>].s_quantity = 42

\* C7 as claimed: with every ordered quantity positive, the committed
\* quantity of every Stock row stays at 10 or more.
C7_StockNeverBelowFloor ==
    \A key \in StockKeys : db.stock[key].s_quantity >= 10

\* C7 as amended: as long as every committed order line has a quantity
\* from 1 to 100, the committed quantity of every Stock row is 10 or more.
C7_StockAtFloorUpTo100 ==
    (\A l \in db.order_line : l.ol_quantity \in 1..100) =>
        \A key \in StockKeys : db.stock[key].s_quantity >= 10

\* 10 - 8 = 2 was restocked to 102.
C7_Witness ==
    /\ db.order_line # {}
    /\ \A l \in db.order_line : l.ol_quantity \in 1..100
    /\ db.stock[<<2, 1>>].s_quantity = 102

\* C8: the committed order_line rows of a returned order are one row for
\* each position i of items: number i, the item and quantity of items[i],
\* amount quantity times the item's price, no delivery date, supplied by
\* the order's warehouse.
C8_OneOrderLinePerItem ==
    \A p \in NewOrderCalls :
        Returned(p) =>
            {l \in db.order_line :
                /\ l.ol_w_id = args[p].warehouse_id
                /\ l.ol_d_id = args[p].district_id
                /\ l.ol_o_id = res[p].value}
            = {[ol_o_id |-> res[p].value,
                ol_d_id |-> args[p].district_id,
                ol_w_id |-> args[p].warehouse_id,
                ol_number |-> i,
                ol_i_id |-> args[p].items[i].item_id,
                ol_supply_w_id |-> args[p].warehouse_id,
                ol_delivery_d |-> "NULL",
                ol_quantity |-> args[p].items[i].quantity,
                ol_amount |-> args[p].items[i].quantity
                                * db.item[args[p].items[i].item_id].i_price]
               : i \in 1..Len(args[p].items)}

C8_Witness ==
    \E p \in NewOrderCalls :
        /\ Returned(p)
        /\ Len(args[p].items) = 2
        /\ args[p].items[1].item_id # args[p].items[2].item_id
        /\ Cardinality({l \in db.order_line : l.ol_o_id = res[p].value}) = 2

\* C9: execute_new_order swallows no error: a finished call returned or
\* raised; it returned exactly if a commit made its writes durable and it
\* caught no exception; a call that caught an exception raised an error,
\* and its connection holds no transaction of it.
C9_NoErrorSwallowed ==
    \A p \in NewOrderCalls :
        /\ pc[p] = "done" => (Returned(p) \/ Raised(p))
        /\ Returned(p) <=> p \in durable
        /\ Returned(p) => loc[p].exc = "none"
        /\ (pc[p] = "done" /\ loc[p].exc # "none") =>
              /\ Raised(p)
              /\ res[p].error # "none"
              /\ p \notin tx[args[p].conn].writers

\* The commit failed, the call raised and the order is not there.
C9_Witness ==
    \E p \in NewOrderCalls :
        /\ Raised(p)
        /\ loc[p].exc = "TransactionConflict"
        /\ p \notin durable
        /\ \A o \in db.orders : o.o_d_id # args[p].district_id

\* C10: the error a call raises is the error of the statement that failed,
\* also when the rollback fails, in execute_new_order and in execute_query.
C10_OriginalErrorRaised ==
    \A p \in Procs :
        (pc[p] = "done" /\ Raised(p)) => res[p].error = loc[p].exc

\* C10 for execute_query alone, whose handler catches the rollback's error.
C10_QueryRaisesOriginalError ==
    \A p \in Procs :
        (args[p].op = "query" /\ pc[p] = "done" /\ Raised(p)) =>
            res[p].error = loc[p].exc

\* Calls that overlap on one connector: the threads of a caller share the
\* connector object, and with it self.connection and its one transaction.
SharedConnectorLoad == [BenchmarkLoad EXCEPT !.exclusive = FALSE]

NextSharedConnector == NextW(SharedConnectorLoad)

SpecSharedConnector == Init /\ [][NextSharedConnector]_vars

\* C11: each call has its own transaction context: the commit of a call
\* makes durable the statements of no other call, and the rollback of a call
\* discards the statements of no other call.
C11_OwnTransactionContext ==
    [][\A p \in Procs :
          /\ (pc[p] \in {"commit", "q_commit"} /\ pc'[p] # pc[p]) =>
                (durable' \ durable) \subseteq {p}
          /\ (/\ pc[p] \in {"no_except", "q_except"} /\ pc'[p] = "done"
              /\ connOK[args[p].conn] /\ connOK' = connOK) =>
                tx[args[p].conn].writers \subseteq {p}]_vars

\* Call p executes its DDL statement in this step.
ExecutesDDL(p) ==
    /\ pc[p] = "q_execute" /\ args[p].op = "query" /\ args[p].cls = "DDL"
    /\ pc'[p] = "q_commit"

\* C12: a DDL statement runs alone in its transaction: when execute_query
\* executes it, the connection has no transaction open, that is, no earlier
\* READ, DML or DDL statement is uncommitted.
C12_DdlRunsAlone ==
    [][\A p \in Procs :
          ExecutesDDL(p) => tx[args[p].conn].status = "idle"]_vars

\* C12 for the writes alone: the transaction a DDL statement joins holds no
\* uncommitted DML or DDL statement; the statements before it are reads.
C12_DdlJoinsReadsOnly ==
    [][\A p \in Procs :
          ExecutesDDL(p) => tx[args[p].conn].writers = {}]_vars

\* The rows transaction t has written so far are rows of its order calls:
\* no customer and no item row, of the district rows those the calls
\* target, of the Stock rows those of the calls' items in their warehouse.
WritesOwnRowsOnly(t) ==
    t.status # "idle" =>
        /\ t.view.customer = t.snap.customer
        /\ t.view.item = t.snap.item
        /\ \A key \in DistrictKeys :
              t.view.district[key] # t.snap.district[key] =>
                  \E p \in t.writers \cap NewOrderCalls : key = DistrictOf(p)
        /\ \A key \in StockKeys :
              t.view.stock[key] # t.snap.stock[key] =>
                  \E p \in t.writers \cap NewOrderCalls : key \in StockRowsOf(p)
        /\ \A o \in InsertedOrders(t) :
              \E p \in t.writers \cap NewOrderCalls :
                  OrderKey(o) = <<args[p].warehouse_id, args[p].district_id, loc[p].next_o_id>>

\* C13: execute_new_order writes no Customer and no Item row, in its
\* transaction or in the committed rows, whether it returns or raises; the
\* district rows that changed are those targeted by calls that returned,
\* the Stock rows that changed are rows of the items of such calls in
\* their warehouse, and every orders, new_order and order_line row is of
\* such a call.
C13_WritesOnlyOrderTables ==
    /\ \A k \in Conns : WritesOwnRowsOnly(tx[k])
    /\ db.customer = InitCustomer
    /\ db.item = InitItem
    /\ \A key \in DistrictKeys :
          db.district[key] # InitDistrict[key] => ReturnedOn(key) # {}
    /\ \A key \in StockKeys :
          db.stock[key] # InitStock[key] =>
              \E p \in NewOrderCalls : Returned(p) /\ key \in StockRowsOf(p)
    /\ \A o \in db.orders :
          \E p \in ReturnedOn(<<o.o_w_id, o.o_d_id>>) : res[p].value = o.o_id
    /\ \A r \in db.new_order :
          \E p \in ReturnedOn(<<r.no_w_id, r.no_d_id>>) : res[p].value = r.no_o_id
    /\ \A l \in db.order_line :
          \E p \in ReturnedOn(<<l.ol_w_id, l.ol_d_id>>) : res[p].value = l.ol_o_id

\* One order of two items of warehouse 1 returned and another call raised:
\* the district and the two Stock rows changed, nothing else did.
C13_Witness ==
    \E p, q \in NewOrderCalls :
        /\ Returned(p) /\ Raised(q)
        /\ DistrictOf(p) = <<1, 1>>
        /\ StockRowsOf(p) = {<<1, 1>>, <<1, 2>>}
        /\ db.district[<<1, 1>>] # InitDistrict[<<1, 1>>]
        /\ db.district[<<1, 2>>] = InitDistrict[<<1, 2>>]
        /\ db.stock[<<1, 1>>] # InitStock[<<1, 1>>]
        /\ db.stock[<<1, 2>>] # InitStock[<<1, 2>>]
        /\ db.stock[<<2, 1>>] = InitStock[<<2, 1>>]
        /\ db.customer = InitCustomer /\ db.item = InitItem

\* The characters a keyword or a name is made of.
WordChars ==
    {Lowercase[i] : i \in DOMAIN Lowercase} \cup {Uppercase[i] : i \in DOMAIN Uppercase}
    \cup {"0", "1", "2", "3", "4", "5", "6", "7", "8", "9", "_"}

\* The longest run of word characters at the start of rest, in upper case.
RECURSIVE LeadingWord(_)
LeadingWord(rest) ==
    IF rest # << >> /\ Head(rest) \in WordChars
    THEN <<Upper(Head(rest))>> \o LeadingWord(Tail(rest))
    ELSE << >>

\* The leading keyword of a statement, leading whitespace and case ignored.
LeadingKeyword(query) == LeadingWord(SkipSpace(query))

\* The class the rule gives a statement of that leading keyword.
ClassOfKeyword(keyword) ==
    IF keyword \in DDL_PATTERN THEN "DDL"
    ELSE IF keyword \in DML_PATTERN THEN "DML"
    ELSE "READ"

QueryCalls == {p \in Procs : args[p].op = "query"}

\* C14: execute_query takes the branch of the class of the statement's
\* leading keyword, leading whitespace and case ignored: DDL for CREATE,
\* ALTER, DROP, TRUNCATE, RENAME, GRANT and REVOKE, DML for INSERT, UPDATE
\* and DELETE, READ for any other; and no statement is both DDL and DML.
C14_ClassifiedByLeadingKeyword ==
    \A p \in QueryCalls :
        /\ args[p].cls = ClassOfKeyword(LeadingKeyword(args[p].query))
        /\ ~(is_ddl(args[p].query) /\ is_dml(args[p].query))

\* C14 but for the words that go on after a keyword: a statement is given
\* the class of its leading keyword unless its leading word starts with a
\* DDL or DML keyword and is longer; and no statement is both DDL and DML.
C14_MisclassifiesLongerWordsOnly ==
    \A p \in QueryCalls :
        /\ \/ args[p].cls = ClassOfKeyword(LeadingKeyword(args[p].query))
           \/ \E keyword \in DDL_PATTERN \cup DML_PATTERN :
                 /\ Len(LeadingKeyword(args[p].query)) > Len(keyword)
                 /\ SubSeq(LeadingKeyword(args[p].query), 1, Len(keyword)) = keyword
        /\ ~(is_ddl(args[p].query) /\ is_dml(args[p].query))

\* Max 3,000 rows modified per transaction.
RowCap == 3000

\* The cap scaled to the orders of the model: an order of one line is
\* within it, an order of two lines is above it.
ScaledCap == 5

\* The rows an order of n_items lines modifies: the district update, the
\* orders and new_order inserts, a stock update and an order_line insert
\* for each line.
ModificationCount(n_items) == 1 + 1 + 1 + 2 * n_items

\* C15: a call of execute_new_order whose modification count is above the
\* cap modifies no row, in its transaction or durably, and raises
\* ResourceLimitExceeded.
C15_FailsFastAboveCap ==
    \A p \in NewOrderCalls :
        ModificationCount(args[p].n_items) > ScaledCap =>
            /\ \A k \in Conns : p \notin tx[k].writers
            /\ p \notin durable
            /\ pc[p] = "done" =>
                  (Raised(p) /\ res[p].error = "ResourceLimitExceeded")

\* C15, the count: an order of at most 1499 lines is within the cap.
C15_LinesWithinCap ==
    \A n_items \in 0..1499 : ModificationCount(n_items) <= RowCap

\* The count for at most 1498 lines, the most the cap has room for.
C15_LinesWithinCapTo1498 ==
    /\ \A n_items \in 0..1498 : ModificationCount(n_items) <= RowCap
    /\ ModificationCount(1499) > RowCap

\* The statement that follows statement at in the fixed order, for a call
\* that has issued line_number of the n_items line bodies in full.
NextInOrder(at, line_number, n_items) ==
    CASE at = "sel_district" -> "upd_district"
      [] at = "upd_district" -> "sel_customer"
      [] at = "sel_customer" -> "ins_order"
      [] at = "ins_order" -> "ins_new_order"
      [] at \in {"ins_new_order", "ins_order_line"} ->
            IF line_number < n_items THEN "sel_item" ELSE "commit"
      [] at = "sel_item" -> "sel_stock"
      [] at = "sel_stock" -> "upd_stock"
      [] at = "upd_stock" -> "ins_order_line"
      [] at = "commit" -> "done"
      [] OTHER -> "none"

\* C16: every step of a call of execute_new_order issues the one statement
\* the call is at and goes to the next statement of the fixed order
\* (district read, district increment, customer read, orders insert,
\* new_order insert, then item read, stock read, stock update and
\* order_line insert for each line in input order, then commit), or to the
\* rollback when the statement fails, after which it issues nothing more;
\* a missing district is found with no write issued, a missing customer
\* with the district incremented and no orders row inserted.
C16_FixedStatementOrder ==
    [][\A p \in Procs :
          (args'[p].op = "new_order" /\ pc'[p] # pc[p]) =>
              LET k == args'[p].conn
                  key == <<args'[p].warehouse_id, args'[p].district_id>>
              IN
              /\ pc[p] = "start" => pc'[p] = "sel_district"
              /\ pc[p] = "no_except" => pc'[p] = "done" /\ Raised(p)'
              /\ pc[p] \notin {"start", "no_except"} =>
                    \/ /\ pc'[p] = "no_except"
                       /\ loc'[p].exc # "none"
                    \/ /\ pc'[p] = NextInOrder(pc[p], loc'[p].line_number,
                                                args'[p].n_items)
                       /\ loc'[p].exc = "none"
              /\ pc'[p] = "sel_stock" => loc'[p].line_number = loc[p].line_number + 1
              /\ pc[p] # "sel_item" => loc'[p].line_number = loc[p].line_number
              /\ Len(args'[p].items) = loc'[p].line_number
              /\ loc'[p].exc = "DistrictNotFound" =>
                    /\ pc[p] \in {"sel_district", "no_except"}
                    /\ p \notin tx'[k].writers
              /\ (loc'[p].exc = "CustomerNotFound" /\ pc'[p] = "no_except") =>
                    /\ pc[p] = "sel_customer"
                    /\ tx'[k].view.district[key].d_next_o_id
                          = tx'[k].snap.district[key].d_next_o_id + 1
                    /\ InsertedOrders(tx'[k]) = {}]_vars

\* One call went through two line bodies to its commit and returned,
\* another stopped at the customer read.
C16_Witness ==
    \E p, q \in NewOrderCalls :
        /\ Returned(p)
        /\ loc[p].line_number = 2 /\ args[p].n_items = 2
        /\ res[q].error = "CustomerNotFound"
        /\ loc[q].line_number = 0

\* The committed orders rows of district key.
OrdersOf(rows, key) == {o \in rows.orders : <<o.o_w_id, o.o_d_id>> = key}

\* C17: with each call in its own transaction, the committed d_next_o_id
\* of a district never decreases, and the ids of the district's committed
\* orders rows are the values from its initial d_next_o_id to its
\* d_next_o_id less 1, one row for each: a call that failed used up no id.
C17_OrderIdsWithoutGap ==
    [][\A key \in DistrictKeys :
          /\ db'.district[key].d_next_o_id >= db.district[key].d_next_o_id
          /\ {o.o_id : o \in OrdersOf(db', key)}
                = InitDistrict[key].d_next_o_id .. (db'.district[key].d_next_o_id - 1)
          /\ Cardinality(OrdersOf(db', key))
                = db'.district[key].d_next_o_id - InitDistrict[key].d_next_o_id]_vars

\* Two orders of district <<1, 1>> are committed, with ids 110 and 111.
C17_Witness ==
    /\ db.district[<<1, 1>>].d_next_o_id = 112
    /\ {o.o_id : o \in OrdersOf(db, <<1, 1>>)} = {110, 111}

\* The positions of items that name item i_id, and their quantities' sum.
LinesOf(items, i_id) == {i \in DOMAIN items : items[i].item_id = i_id}

RECURSIVE SumQuantity(_, _)
SumQuantity(items, lines) ==
    IF lines = {} THEN 0
    ELSE LET i == CHOOSE j \in lines : TRUE
         IN  items[i].quantity + SumQuantity(items, lines \ {i})

\* C18: in an order, the stock read of a line sees the updates of the
\* earlier lines of the same item: the quantity it reads is the quantity at
\* the start of the transaction after those lines; and the commit of an
\* order with several lines of one item leaves the Stock row at the
\* quantity after all of them in input order, the year-to-date up by the
\* sum of their quantities and the order count up by their number.
C18_LaterLinesSeeEarlierUpdates ==
    [][\A p \in Procs :
          LET k == args[p].conn
              items == args[p].items
          IN
          /\ (pc[p] = "sel_stock" /\ pc'[p] = "upd_stock") =>
                LET i_id == Line(p).item_id
                    key == <<args[p].warehouse_id, i_id>>
                IN  loc'[p].s_quantity =
                        StockAfterLines(tx'[k].snap.stock[key],
                                        SubSeq(items, 1, loc[p].line_number - 1),
                                        i_id).s_quantity
          /\ (pc[p] = "commit" /\ pc'[p] = "done" /\ res'[p].kind = "returned") =>
                \A key \in StockKeys :
                    (key[1] = args[p].warehouse_id
                     /\ Cardinality(LinesOf(items, key[2])) >= 2) =>
                        /\ db'.stock[key].s_quantity =
                              StockAfterLines(db.stock[key], items, key[2]).s_quantity
                        /\ db'.stock[key].s_ytd =
                              db.stock[key].s_ytd + SumQuantity(items, LinesOf(items, key[2]))
                        /\ db'.stock[key].s_order_cnt =
                              db.stock[key].s_order_cnt
                                  + Cardinality(LinesOf(items, key[2]))]_vars

\* An order of item 1 twice: 15 - 8 = 7 went to 107, then 107 - 8 = 99.
C18_Witness ==
    \E p \in NewOrderCalls :
        /\ Returned(p)
        /\ args[p].warehouse_id = 1
        /\ Len(args[p].items) = 2
        /\ args[p].items[1].item_id = 1 /\ args[p].items[2].item_id = 1
        /\ db.stock[<<1, 1>>].s_quantity = 99
        /\ db.stock[<<1, 1>>].s_ytd = 16
        /\ db.stock[<<1, 1>>].s_order_cnt = 2
====
